---- MODULE Spec2Model ----
(***************************************************************************)
(* Model of the reprint crate (src/src/lib.rs): a batch of byte-range      *)
(* changes is sorted, verified, applied to the content read from a file,   *)
(* and the result is written through <path>.tmp with the previous file     *)
(* kept as <path>.bk.                                                      *)
(*                                                                         *)
(* A file is a record [exists, data]; data is a sequence of bytes.  A      *)
(* message is a tuple whose first element names the format string that     *)
(* produced it.  One action models one statement group of reprint /        *)
(* write_file, in program order (pc).                                      *)
(***************************************************************************)
EXTENDS Integers, Sequences, FiniteSets, TLC

VARIABLES
    pc,         \* position of the single reprint invocation
    supplied,   \* the ChangeSet as passed by the caller (never modified)
    changes,    \* the local `changes` vector (sorted in place by line 29)
    path_utf8,  \* whether input_path.as_str() is Some (line 129)
    fs,         \* the three directory entries: path, tmp, bk
    fs0,        \* the directory entries when reprint was called
    input,      \* the String returned by read_file
    cap,        \* the i64 capacity estimate of lines 44-46
    buf,        \* the output Vec<u8>
    in_pos,     \* process: current position in the input
    idx,        \* process: 1-based position of the iterator over changes
    msg,        \* what reprint printed: <<stage prefix, format, args...>>
    ops,        \* the file-system calls made so far, in order
    calls,      \* two calls on one path: the state of each call
    disk        \* two calls on one path: directory entries and file data

\* The state of the model of one call.
oneVars == <<pc, supplied, changes, path_utf8, fs, fs0, input, cap, buf, in_pos, idx, msg, ops>>

\* The state of the model of two calls on one path.
twoVars == <<calls, disk>>

vars == <<oneVars, twoVars>>

----------------------------------------------------------------------------
(* Bounds and input universes *)

MaxLen == 3          \* longest file content; offsets range over 0..MaxLen
MaxChangesIO == 1    \* changes per call in the file-system family (Spec)
MaxChanges == 2      \* changes per call in the apply family (SpecApply)
MaxChangesV == 3     \* changes per call in the validation family (SpecVerify)

Alphabet == <<"a", "b", "c", "d", "e", "f", "g", "h">>

\* The file content of length n: n distinct bytes, so that every position of
\* the original can be recognised in the output.
Content(n) == [i \in 1..n |-> Alphabet[i]]

Contents == {Content(n) : n \in 0..MaxLen}

\* Replacement texts: a deletion, a one-byte and a two-byte text.
Texts == {<<>>, <<"X">>, <<"Y", "Z">>}

Offsets == 0..MaxLen

Absent == [exists |-> FALSE, data |-> <<>>]

File(d) == [exists |-> TRUE, data |-> d]

\* Content of a leftover <path>.tmp or <path>.bk from an earlier run.
Stale == File(<<"s">>)

\* Change::new
Change(s, e, t) == [start_byte |-> s, end_byte |-> e, text |-> t]

AllChanges == {Change(s, e, t) : s \in Offsets, e \in Offsets, t \in Texts}

WellFormedChanges == {c \in AllChanges : c.start_byte <= c.end_byte}

RangeChanges == {Change(s, e, <<"X">>) : s \in Offsets, e \in Offsets}

SeqsUpTo(S, n) == UNION {[1..k -> S] : k \in 0..n}

----------------------------------------------------------------------------
(* Pure functions of the crate *)

OkMsg == <<"ok">>

NoMsg == <<"none", "none">>

\* impl Ord for Change: the ordering looks at start_byte only.
cmp(a, b) ==
    IF a.start_byte < b.start_byte THEN "Less"
    ELSE IF a.start_byte = b.start_byte THEN "Equal"
    ELSE "Greater"

\* Insert c behind the last element that is not Greater than c.
RECURSIVE insert(_, _)
insert(s, c) ==
    IF s = <<>> THEN <<c>>
    ELSE IF cmp(s[Len(s)], c) = "Greater"
         THEN Append(insert(SubSeq(s, 1, Len(s) - 1), c), s[Len(s)])
         ELSE Append(s, c)

\* changes.sort(): the slice sort is a stable merge sort; elements that
\* compare Equal keep the order in which they were supplied.
RECURSIVE sort(_)
sort(s) ==
    IF s = <<>> THEN <<>>
    ELSE insert(sort(SubSeq(s, 1, Len(s) - 1)), s[Len(s)])

\* verify with the overlap test made against the previous start.
RECURSIVE verifyFromPrevStart(_, _, _, _)
verifyFromPrevStart(chs, i, prev_start, prev_end) ==
    IF i > Len(chs) THEN OkMsg
    ELSE LET ch == chs[i] IN
         IF ch.end_byte < ch.start_byte
         THEN <<"Bad change at", ch.start_byte>>
         ELSE IF ch.start_byte < prev_start
         THEN <<"Overlapping changes", prev_start, prev_end,
                ch.start_byte, ch.end_byte>>
         ELSE verifyFromPrevStart(chs, i + 1, ch.start_byte, ch.end_byte)

\* verify with the operands of the end-before-start test swapped.
RECURSIVE verifyFromBadTest(_, _, _, _)
verifyFromBadTest(chs, i, prev_start, prev_end) ==
    IF i > Len(chs) THEN OkMsg
    ELSE LET ch == chs[i] IN
         IF ch.start_byte < ch.end_byte
         THEN <<"Bad change at", ch.start_byte>>
         ELSE IF ch.start_byte < prev_end
         THEN <<"Overlapping changes", prev_start, prev_end,
                ch.start_byte, ch.end_byte>>
         ELSE verifyFromBadTest(chs, i + 1, ch.start_byte, ch.end_byte)

\* verify, lines 65-82: the loop from the i-th change on.
RECURSIVE verifyFrom(_, _, _, _)
verifyFrom(chs, i, prev_start, prev_end) ==
    IF i > Len(chs) THEN OkMsg
    ELSE LET ch == chs[i] IN
         IF ch.end_byte < ch.start_byte
         THEN <<"Bad change at", ch.start_byte>>
         ELSE IF ch.start_byte < prev_end
         THEN <<"Overlapping changes", prev_start, prev_end,
                ch.start_byte, ch.end_byte>>
         ELSE verifyFrom(chs, i + 1, ch.start_byte, ch.end_byte)

verify(chs) == verifyFrom(chs, 1, 0, 0)

\* Change::delta
delta(ch) == Len(ch.text) - (ch.end_byte - ch.start_byte)

\* changes.iter().fold(0i64, |a, c| a + c.delta())
RECURSIVE changes_size(_)
changes_size(chs) ==
    IF chs = <<>> THEN 0
    ELSE changes_size(SubSeq(chs, 1, Len(chs) - 1)) + delta(chs[Len(chs)])

\* The estimate handed to Vec::with_capacity, before the cast to usize.
capacity(inp, chs) == Len(inp) + changes_size(chs)

\* &input[a..b]: bytes a (inclusive) to b (exclusive), 0-based.
Slice(inp, a, b) == SubSeq(inp, a + 1, b)

\* A slice a..b of a vector of length n panics unless a <= b <= n.
SliceOk(n, a, b) == a <= b /\ b <= n

\* The loop body with the cursor left at the start of the replaced span.
LoopBodyNoSkip(inp, ch, pos, out) ==
    IF pos >= Len(inp)
    THEN [st |-> "err", msg |-> <<"Input out of range", pos, Len(inp)>>,
          in_pos |-> pos, buf |-> out]
    ELSE IF ch.start_byte >= Len(inp)
    THEN [st |-> "err",
          msg |-> <<"Change out of range", ch.start_byte, Len(inp)>>,
          in_pos |-> pos, buf |-> out]
    ELSE IF ~SliceOk(Len(inp), pos, ch.start_byte)
    THEN [st |-> "panic", msg |-> NoMsg, in_pos |-> pos, buf |-> out]
    ELSE [st |-> "ok", msg |-> NoMsg, in_pos |-> ch.start_byte,
          buf |-> out \o Slice(inp, pos, ch.start_byte) \o ch.text]

\* process, lines 107-119: one iteration of the loop over the changes.
LoopBody(inp, ch, pos, out) ==
    IF pos >= Len(inp)
    THEN [st |-> "err", msg |-> <<"Input out of range", pos, Len(inp)>>,
          in_pos |-> pos, buf |-> out]
    ELSE IF ch.start_byte >= Len(inp)
    THEN [st |-> "err",
          msg |-> <<"Change out of range", ch.start_byte, Len(inp)>>,
          in_pos |-> pos, buf |-> out]
    ELSE IF ~SliceOk(Len(inp), pos, ch.start_byte)
    THEN [st |-> "panic", msg |-> NoMsg, in_pos |-> pos, buf |-> out]
    ELSE [st |-> "ok", msg |-> NoMsg, in_pos |-> ch.end_byte,
          buf |-> out \o Slice(inp, pos, ch.start_byte) \o ch.text]

\* The rest of the input not pushed.
PushRestNothing(inp, pos, out) ==
    IF ~SliceOk(Len(inp), pos, Len(inp))
    THEN [st |-> "panic", msg |-> NoMsg, in_pos |-> pos, buf |-> out]
    ELSE [st |-> "ok", msg |-> NoMsg, in_pos |-> pos, buf |-> out]

\* process, lines 122-124: push the rest of the input onto the output.
PushRest(inp, pos, out) ==
    IF ~SliceOk(Len(inp), pos, Len(inp))
    THEN [st |-> "panic", msg |-> NoMsg, in_pos |-> pos, buf |-> out]
    ELSE [st |-> "ok", msg |-> NoMsg, in_pos |-> pos,
          buf |-> out \o Slice(inp, pos, Len(inp))]

\* process from its i-th iteration on, as one function.
RECURSIVE processFrom(_, _, _, _, _)
processFrom(inp, chs, i, pos, out) ==
    IF i > Len(chs) THEN PushRest(inp, pos, out)
    ELSE LET r == LoopBody(inp, chs[i], pos, out) IN
         IF r.st = "ok" THEN processFrom(inp, chs, i + 1, r.in_pos, r.buf)
         ELSE r

process(inp, chs) == processFrom(inp, chs, 1, 0, <<>>)

\* reprint up to the call of write_file (lines 29-47), as a function of the
\* changes supplied and the content read: what it decides and the buffer it
\* hands to write_file.
rewrite(chs, inp) ==
    LET sorted == sort(chs)
        v == verify(sorted)
    IN  IF v[1] # "ok"
        THEN [decision |-> "reject", error |-> v[1], out |-> <<>>]
        ELSE IF capacity(inp, sorted) < 0
        THEN [decision |-> "crash", error |-> "none", out |-> <<>>]
        ELSE LET r == process(inp, sorted) IN
             IF r.st = "ok"
             THEN [decision |-> "accept", error |-> "none", out |-> r.buf]
             ELSE IF r.st = "err"
             THEN [decision |-> "reject", error |-> r.msg[1], out |-> <<>>]
             ELSE [decision |-> "crash", error |-> "none", out |-> <<>>]

\* A write of `data` at offset 0 of a file opened without truncation.
Overwrite(old, data) ==
    data \o SubSeq(old, Len(data) + 1, Len(old))

----------------------------------------------------------------------------
(* Initial states: the arguments of one call and the directory it finds *)

InitCall(chs, dir, utf8) ==
    /\ pc = "sort"
    /\ supplied = chs
    /\ changes = chs
    /\ path_utf8 = utf8
    /\ fs = dir
    /\ fs0 = dir
    /\ input = <<>>
    /\ cap = 0
    /\ buf = <<>>
    /\ in_pos = 0
    /\ idx = 1
    /\ msg = NoMsg
    /\ ops = <<>>
    /\ calls = <<>>
    /\ disk = <<>>

CleanDir(c) == [path |-> File(c), tmp |-> Absent, bk |-> Absent]

\* Any changes, a target file, and possibly leftovers of an earlier run.
Init ==
    \E chs \in SeqsUpTo(AllChanges, MaxChangesIO), c \in Contents,
       t \in {Absent, Stale}, b \in {Absent, Stale}, u \in BOOLEAN :
        InitCall(chs, [path |-> File(c), tmp |-> t, bk |-> b], u)

\* Well-formed changes against a clean directory.
InitApply ==
    \E chs \in SeqsUpTo(WellFormedChanges, MaxChanges), c \in Contents :
        InitCall(chs, CleanDir(c), TRUE)

\* Any ranges, well-formed or not, against a clean directory.
InitVerify ==
    \E chs \in SeqsUpTo(RangeChanges, MaxChangesV) :
        InitCall(chs, CleanDir(Content(MaxLen)), TRUE)

----------------------------------------------------------------------------
(* reprint, lines 28-61 *)

\* The early return of reprint after println!("<prefix>: {}", m).
Fail(prefix, m) ==
    /\ pc' = "done"
    /\ msg' = <<prefix>> \o m

\* line 29
Sort ==
    /\ pc = "sort"
    /\ changes' = sort(changes)
    /\ pc' = "verify"
    /\ UNCHANGED twoVars
    /\ UNCHANGED <<supplied, path_utf8, fs, fs0, input, cap, buf, in_pos, idx, msg, ops>>

\* The verification error printed without the return.
VerifyNoReturn ==
    /\ pc = "verify"
    /\ LET v == verify(changes) IN
       /\ pc' = "read"
       /\ msg' = IF v[1] = "ok" THEN msg ELSE <<"Verification error">> \o v
    /\ UNCHANGED twoVars
    /\ UNCHANGED <<supplied, changes, path_utf8, fs, fs0, input, cap, buf, in_pos, idx, ops>>

\* lines 31-34
Verify ==
    /\ pc = "verify"
    /\ LET v == verify(changes) IN
       IF v[1] = "ok"
       THEN pc' = "read" /\ msg' = msg
       ELSE Fail("Verification error", v)
    /\ UNCHANGED twoVars
    /\ UNCHANGED <<supplied, changes, path_utf8, fs, fs0, input, cap, buf, in_pos, idx, ops>>

\* lines 36-42 and read_file: the open or the read may fail.
ReadFile ==
    /\ pc = "read"
    /\ ops' = Append(ops, "open path")
    /\ \/ /\ fs.path.exists
          /\ input' = fs.path.data
          /\ pc' = "alloc"
          /\ msg' = msg
       \/ /\ Fail("Error reading file", <<"io error">>)
          /\ input' = input
    /\ UNCHANGED twoVars
    /\ UNCHANGED <<supplied, changes, path_utf8, fs, fs0, cap, buf, in_pos, idx>>

\* lines 44-46: a negative estimate cast to usize is a request for at least
\* 2^63 bytes, which Vec::with_capacity cannot serve: the process dies.
Alloc ==
    /\ pc = "alloc"
    /\ cap' = capacity(input, changes)
    /\ pc' = IF cap' < 0 THEN "crashed" ELSE "process"
    /\ buf' = <<>>
    /\ in_pos' = 0
    /\ idx' = 1
    /\ UNCHANGED twoVars
    /\ UNCHANGED <<supplied, changes, path_utf8, fs, fs0, input, msg, ops>>

\* process, one iteration of the loop (lines 106-120)
ProcessStep ==
    /\ pc = "process"
    /\ idx <= Len(changes)
    /\ LET r == LoopBody(input, changes[idx], in_pos, buf) IN
       /\ in_pos' = r.in_pos
       /\ buf' = r.buf
       /\ IF r.st = "ok" THEN pc' = pc /\ msg' = msg /\ idx' = idx + 1
          ELSE IF r.st = "panic" THEN pc' = "crashed" /\ msg' = msg /\ idx' = idx
          ELSE Fail("Error processing changes", r.msg) /\ idx' = idx
    /\ UNCHANGED twoVars
    /\ UNCHANGED <<supplied, changes, path_utf8, fs, fs0, input, cap, ops>>

\* process, after the loop (lines 122-124)
ProcessTail ==
    /\ pc = "process"
    /\ idx > Len(changes)
    /\ LET r == PushRest(input, in_pos, buf) IN
       /\ buf' = r.buf
       /\ pc' = IF r.st = "ok" THEN "path_name" ELSE "crashed"
    /\ UNCHANGED twoVars
    /\ UNCHANGED <<supplied, changes, path_utf8, fs, fs0, input, cap, in_pos, idx, msg, ops>>

----------------------------------------------------------------------------
(* write_file, lines 127-175 *)

\* lines 129-135
PathName ==
    /\ pc = "path_name"
    /\ IF path_utf8
       THEN pc' = "check_tmp" /\ msg' = msg
       ELSE Fail("Error writing file", <<"Couldn't turn path into a string">>)
    /\ UNCHANGED twoVars
    /\ UNCHANGED <<supplied, changes, path_utf8, fs, fs0, input, cap, buf, in_pos, idx, ops>>

\* lines 136-138
CheckTmp ==
    /\ pc = "check_tmp"
    /\ ops' = Append(ops, "exists tmp")
    /\ IF fs.tmp.exists
       THEN Fail("Error writing file", <<"already exists", "tmp">>)
       ELSE pc' = "check_bk" /\ msg' = msg
    /\ UNCHANGED twoVars
    /\ UNCHANGED <<supplied, changes, path_utf8, fs, fs0, input, cap, buf, in_pos, idx>>

\* The backup check left out.
CheckBkSkipped ==
    /\ pc = "check_bk"
    /\ ops' = Append(ops, "exists bk")
    /\ pc' = "open_tmp"
    /\ msg' = msg
    /\ UNCHANGED twoVars
    /\ UNCHANGED <<supplied, changes, path_utf8, fs, fs0, input, cap, buf, in_pos, idx>>

\* lines 139-141
CheckBk ==
    /\ pc = "check_bk"
    /\ ops' = Append(ops, "exists bk")
    /\ IF fs.bk.exists
       THEN Fail("Error writing file", <<"already exists", "bk">>)
       ELSE pc' = "open_tmp" /\ msg' = msg
    /\ UNCHANGED twoVars
    /\ UNCHANGED <<supplied, changes, path_utf8, fs, fs0, input, cap, buf, in_pos, idx>>

\* lines 144-149: Open with Write access creates the file when it is missing
\* and does not truncate it.
OpenTmp ==
    /\ pc = "open_tmp"
    /\ ops' = Append(ops, "open tmp")
    /\ \/ /\ fs' = [fs EXCEPT !.tmp = File(fs.tmp.data)]
          /\ pc' = "write_tmp"
          /\ msg' = msg
       \/ /\ Fail("Error writing file", <<"Couldn't open", "tmp">>)
          /\ fs' = fs
    /\ UNCHANGED twoVars
    /\ UNCHANGED <<supplied, changes, path_utf8, fs0, input, cap, buf, in_pos, idx>>

\* The buffer written over the target file itself.
WriteTmpInPlace ==
    /\ pc = "write_tmp"
    /\ ops' = Append(ops, "write tmp")
    /\ \/ /\ fs' = [fs EXCEPT !.path = File(Overwrite(fs.path.data, buf))]
          /\ pc' = "rename_bk"
          /\ msg' = msg
       \/ \E k \in 0..(Len(buf) - 1) :
          /\ fs' = [fs EXCEPT !.path = File(Overwrite(fs.path.data, SubSeq(buf, 1, k)))]
          /\ Fail("Error writing file", <<"Couldn't write to", "tmp">>)
    /\ UNCHANGED twoVars
    /\ UNCHANGED <<supplied, changes, path_utf8, fs0, input, cap, buf, in_pos, idx>>

\* lines 150-153: the write puts the whole buffer, or fails after a part.
WriteTmp ==
    /\ pc = "write_tmp"
    /\ ops' = Append(ops, "write tmp")
    /\ \/ /\ fs' = [fs EXCEPT !.tmp = File(Overwrite(fs.tmp.data, buf))]
          /\ pc' = "rename_bk"
          /\ msg' = msg
       \/ \E k \in 0..(Len(buf) - 1) :
          /\ fs' = [fs EXCEPT !.tmp = File(Overwrite(fs.tmp.data, SubSeq(buf, 1, k)))]
          /\ Fail("Error writing file", <<"Couldn't write to", "tmp">>)
    /\ UNCHANGED twoVars
    /\ UNCHANGED <<supplied, changes, path_utf8, fs0, input, cap, buf, in_pos, idx>>

\* The target file removed instead of renamed to the backup.
RenameBkUnlink ==
    /\ pc = "rename_bk"
    /\ ops' = Append(ops, "rename path bk")
    /\ \/ /\ fs.path.exists
          /\ fs' = [fs EXCEPT !.path = Absent]
          /\ pc' = "rename_tmp"
          /\ msg' = msg
       \/ /\ Fail("Error writing file", <<"Couldn't rename", "path", "bk">>)
          /\ fs' = fs
    /\ UNCHANGED twoVars
    /\ UNCHANGED <<supplied, changes, path_utf8, fs0, input, cap, buf, in_pos, idx>>

\* lines 156-162: rename input file to backup.
RenameBk ==
    /\ pc = "rename_bk"
    /\ ops' = Append(ops, "rename path bk")
    /\ \/ /\ fs.path.exists
          /\ fs' = [fs EXCEPT !.bk = fs.path, !.path = Absent]
          /\ pc' = "rename_tmp"
          /\ msg' = msg
       \/ /\ Fail("Error writing file", <<"Couldn't rename", "path", "bk">>)
          /\ fs' = fs
    /\ UNCHANGED twoVars
    /\ UNCHANGED <<supplied, changes, path_utf8, fs0, input, cap, buf, in_pos, idx>>

\* The temporary file copied onto the target instead of renamed.
RenameTmpCopy ==
    /\ pc = "rename_tmp"
    /\ ops' = Append(ops, "rename tmp path")
    /\ \/ /\ fs.tmp.exists
          /\ fs' = [fs EXCEPT !.path = fs.tmp]
          /\ pc' = "done"
          /\ msg' = msg
       \/ /\ Fail("Error writing file", <<"Couldn't rename", "tmp", "path">>)
          /\ fs' = fs
    /\ UNCHANGED twoVars
    /\ UNCHANGED <<supplied, changes, path_utf8, fs0, input, cap, buf, in_pos, idx>>

\* The second rename reporting its failure with the paths of the first.
RenameTmpSameMessage ==
    /\ pc = "rename_tmp"
    /\ ops' = Append(ops, "rename tmp path")
    /\ \/ /\ fs.tmp.exists
          /\ fs' = [fs EXCEPT !.path = fs.tmp, !.tmp = Absent]
          /\ pc' = "done"
          /\ msg' = msg
       \/ /\ Fail("Error writing file", <<"Couldn't rename", "path", "bk">>)
          /\ fs' = fs
    /\ UNCHANGED twoVars
    /\ UNCHANGED <<supplied, changes, path_utf8, fs0, input, cap, buf, in_pos, idx>>

\* lines 165-174: rename temp file to input file.
RenameTmp ==
    /\ pc = "rename_tmp"
    /\ ops' = Append(ops, "rename tmp path")
    /\ \/ /\ fs.tmp.exists
          /\ fs' = [fs EXCEPT !.path = fs.tmp, !.tmp = Absent]
          /\ pc' = "done"
          /\ msg' = msg
       \/ /\ Fail("Error writing file", <<"Couldn't rename", "tmp", "path">>)
          /\ fs' = fs
    /\ UNCHANGED twoVars
    /\ UNCHANGED <<supplied, changes, path_utf8, fs0, input, cap, buf, in_pos, idx>>

Next ==
    \/ Sort
    \/ Verify
    \/ ReadFile
    \/ Alloc
    \/ ProcessStep
    \/ ProcessTail
    \/ PathName
    \/ CheckTmp
    \/ CheckBk
    \/ OpenTmp
    \/ WriteTmp
    \/ RenameBk
    \/ RenameTmp

Spec == Init /\ [][Next]_vars

SpecApply == InitApply /\ [][Next]_vars

SpecVerify == InitVerify /\ [][Next]_vars

----------------------------------------------------------------------------
(* Vocabulary of the properties *)

Range(s) == {s[i] : i \in DOMAIN s}

Succeeded == pc = "done" /\ msg[1] = "none"

Failed == pc = "crashed" \/ (pc = "done" /\ msg[1] # "none")

\* The content the target file had when reprint was called.
Original == fs0.path

\* The rewritten content: what process makes of the original content and
\* the sorted changes.
NewContent == File(process(fs0.path.data, sort(supplied)).buf)

\* The existence checks of write_file have been reached.
WritePhaseBegun == "exists tmp" \in Range(ops)

\* No call that creates, writes or renames a file has been made.
NothingWritten ==
    /\ fs = fs0
    /\ Range(ops) \subseteq {"open path", "exists tmp", "exists bk"}

----------------------------------------------------------------------------
(* Durable writer *)

\* C1: in every state of one reprint call the complete original content or
\* the complete new content is readable under <path> or <path>.bk, and
\* <path>, when it exists, holds the complete original or the complete new
\* content, never a part or a mixture.
C1_OldOrNewRecoverable ==
    /\ \/ fs.path = Original
       \/ fs.bk = Original
       \/ fs.path = NewContent
    /\ fs.path.exists => fs.path \in {Original, NewContent}

\* C1 witness: the second rename failed after a change of content; the
\* original is under <path>.bk only.
C1_Witness ==
    /\ pc = "done"
    /\ msg[2] = "Couldn't rename"
    /\ msg[3] = "tmp"
    /\ ~fs.path.exists
    /\ fs.bk = Original
    /\ fs.tmp = NewContent
    /\ NewContent # Original

\* C2: a call that fails before the first rename leaves <path> with the
\* original content and <path>.bk as it was (not created); and <path> holds
\* something other than the original only through the final rename of
\* <path>.tmp onto it.
C2_FailureBeforeRenameLeavesTarget ==
    /\ (Failed /\ "rename path bk" \notin Range(ops)) =>
           /\ fs.path = Original
           /\ fs.bk = fs0.bk
    /\ (fs.path.exists /\ fs.path # Original) =>
           /\ Succeeded
           /\ ops[Len(ops)] = "rename tmp path"

\* C2 witness: the write of the temporary file failed after a part of the
\* buffer; the target is untouched and there is no backup.
C2_Witness ==
    /\ pc = "done"
    /\ msg[2] = "Couldn't write to"
    /\ fs.tmp.exists
    /\ fs.tmp.data # buf
    /\ fs.tmp.data # <<>>
    /\ fs.path = Original
    /\ ~fs.bk.exists

\* C3 (state part): after a successful call <path> holds the rewritten
\* buffer, <path>.bk the pre-edit content, and <path>.tmp does not exist.
C3_SuccessState ==
    Succeeded =>
        /\ fs.path = NewContent
        /\ fs.path.data = buf
        /\ fs.bk = Original
        /\ ~fs.tmp.exists

\* C3 (step part): a step after which <path>.tmp has ceased to exist is the
\* rename of <path>.tmp onto <path>.
C3_TmpLeavesOnlyByRename ==
    (fs.tmp.exists /\ ~fs'.tmp.exists) =>
        (pc = "rename_tmp" /\ fs'.path = fs.tmp)

\* C3: on success <path> = rewritten buffer, <path>.bk = original content,
\* <path>.tmp absent; and only the rename onto <path> removes <path>.tmp.
C3_SuccessLayout == [](C3_SuccessState) /\ [][C3_TmpLeavesOnlyByRename]_vars

\* C3 witness: a successful call that changed the content.
C3_Witness ==
    /\ Succeeded
    /\ fs.path = NewContent
    /\ NewContent # Original
    /\ fs.bk = Original
    /\ ~fs.tmp.exists
    /\ changes # <<>>

\* C4: when <path>.tmp or <path>.bk exists as the write phase begins, the
\* call ends with the "already exists" error, and <path>, <path>.tmp and
\* <path>.bk stay as they were: nothing is opened for writing, written or
\* renamed.
C4_CollisionGuard ==
    (fs0.tmp.exists \/ fs0.bk.exists) =>
        /\ NothingWritten
        /\ WritePhaseBegun =>
               \/ pc = "check_bk"
               \/ pc = "done" /\ msg[2] = "already exists"

\* C4 witness: a leftover backup alone stopped the call.
C4_Witness ==
    /\ pc = "done"
    /\ msg[2] = "already exists"
    /\ msg[3] = "bk"
    /\ fs0.bk.exists
    /\ ~fs0.tmp.exists
    /\ fs = fs0

----------------------------------------------------------------------------
(* Validator and patch applier *)

WellFormed(ch) == ch.start_byte <= ch.end_byte

Min(a, b) == IF a < b THEN a ELSE b

Max(a, b) == IF a < b THEN b ELSE a

\* The half-open ranges of two changes have a byte in common.
Intersect(a, b) ==
    Max(a.start_byte, b.start_byte) < Min(a.end_byte, b.end_byte)

AllWellFormed(chs) == \A i \in DOMAIN chs : WellFormed(chs[i])

HasMalformed(chs) == \E i \in DOMAIN chs : ~WellFormed(chs[i])

\* Two well-formed changes of chs have intersecting ranges.
HasOverlap(chs) ==
    \E i, j \in DOMAIN chs :
        /\ i < j
        /\ WellFormed(chs[i])
        /\ WellFormed(chs[j])
        /\ Intersect(chs[i], chs[j])

\* Every order in which the changes of chs can be supplied.
Perms(chs) ==
    LET n == Len(chs)
        bij == {f \in [1..n -> 1..n] : \A i, j \in 1..n : i # j => f[i] # f[j]}
    IN  {[i \in 1..n |-> chs[f[i]]] : f \in bij}

\* Validation is over (the call is past verify).
Validated == pc \notin {"sort", "verify"}

\* The apply stage is over for a content that was read: process returned,
\* or the process died in the allocation or in process.
ApplyOver ==
    \/ pc = "path_name"
    \/ pc = "done" /\ msg[1] = "Error processing changes"
    \/ pc = "crashed"

\* What this call decided, in the vocabulary of rewrite.
Observed ==
    IF pc = "path_name"
    THEN [decision |-> "accept", error |-> "none", out |-> buf]
    ELSE IF pc = "crashed"
    THEN [decision |-> "crash", error |-> "none", out |-> <<>>]
    ELSE [decision |-> "reject", error |-> msg[2], out |-> <<>>]

\* C5: for pairwise non-overlapping, well-formed changes, every order of
\* supplying them gives the decision and the buffer that this call gave.
C5_OrderIndependence ==
    (/\ ApplyOver \/ (pc = "done" /\ msg[1] = "Verification error")
     /\ AllWellFormed(supplied)
     /\ ~HasOverlap(supplied)) =>
        \A q \in Perms(supplied) : rewrite(q, Original.data) = Observed

\* The text of each pure insertion put at its offset, last change first.
RECURSIVE InsertAll(_, _)
InsertAll(inp, chs) ==
    IF chs = <<>> THEN inp
    ELSE LET ch == chs[Len(chs)]
             k == ch.start_byte
         IN  InsertAll(SubSeq(inp, 1, k) \o ch.text \o SubSeq(inp, k + 1, Len(inp)),
                       SubSeq(chs, 1, Len(chs) - 1))

\* Every change is a pure insertion at an offset 0..n of a content of length n.
PureInsertions(chs, n) ==
    \A i \in DOMAIN chs :
        chs[i].start_byte = chs[i].end_byte /\ chs[i].end_byte <= n

\* C6: pure insertions at offsets 0 <= k <= content length, the length
\* itself included, are applied: process succeeds and the output is the
\* content with each text inserted at its offset.
C6_InsertionAtEveryOffset ==
    (ApplyOver /\ PureInsertions(changes, Len(input))) =>
        /\ pc = "path_name"
        /\ buf = InsertAll(input, changes)

\* Some change starts inside the content and ends beyond it.
EndsBeyond(chs, n) ==
    \E i \in DOMAIN chs : chs[i].start_byte < n /\ chs[i].end_byte > n

\* C7: a changeset with a change that starts inside the content and ends
\* beyond it is reported as out of range by the apply stage: the process
\* does not die, and no file is created, written or renamed.
C7_EndBeyondContentReported ==
    (ApplyOver /\ EndsBeyond(changes, Len(input))) =>
        /\ pc = "done"
        /\ msg[2] \in {"Input out of range", "Change out of range"}
        /\ NothingWritten

\* The exact inverse of sorted changes chs applied to inp: each change
\* (s, e, t) becomes the range its text occupies in the output, with the
\* original bytes [s, e) as the text.
Inverse(chs, inp) ==
    [i \in DOMAIN chs |->
        LET s == chs[i].start_byte + changes_size(SubSeq(chs, 1, i - 1))
        IN  Change(s, s + Len(chs[i].text),
                   Slice(inp, chs[i].start_byte, chs[i].end_byte))]

\* C8: when process has applied the changes, the inverse changeset is
\* accepted for the output and gives back the original content.
C8_RoundTrip ==
    pc = "path_name" =>
        LET back == rewrite(Inverse(changes, input), buf)
        IN  back.decision = "accept" /\ back.out = input

\* The call was stopped by verify, before any file-system call.
RejectedUntouched ==
    /\ pc = "done"
    /\ msg[1] = "Verification error"
    /\ ops = <<>>
    /\ fs = fs0

\* C9 as stated: every changeset with two well-formed changes whose ranges
\* intersect is rejected with the overlapping-changes error, no file touched.
C9_OverlapAlwaysReportedAsOverlap ==
    (Validated /\ HasOverlap(supplied)) =>
        (RejectedUntouched /\ msg[2] = "Overlapping changes")

\* C9 amended: every changeset with two well-formed changes whose ranges
\* intersect, in any order, is rejected by validation without any
\* file-system call; the error is the overlapping-changes error when all
\* changes are well-formed, and otherwise that or the malformed-change error.
C9_OverlapRejected ==
    (Validated /\ HasOverlap(supplied)) =>
        /\ RejectedUntouched
        /\ msg[2] \in {"Overlapping changes", "Bad change at"}
        /\ AllWellFormed(supplied) => msg[2] = "Overlapping changes"

\* C9 witness: three well-formed changes, supplied out of order, two of
\* them intersecting, rejected as overlapping.
C9_Witness ==
    /\ RejectedUntouched
    /\ msg[2] = "Overlapping changes"
    /\ HasOverlap(supplied)
    /\ AllWellFormed(supplied)
    /\ Len(supplied) = 3
    /\ supplied # changes

\* The first malformed change in the order chs.
FirstMalformed(chs) ==
    CHOOSE i \in DOMAIN chs :
        ~WellFormed(chs[i]) /\ \A j \in 1..(i - 1) : WellFormed(chs[j])

\* Before position k of chs a change starts before the end of its predecessor.
StartsBeforePrevEnd(chs, k) ==
    \E j \in 2..(k - 1) : chs[j].start_byte < chs[j - 1].end_byte

\* C10 as stated: a changeset with a change whose end_byte < start_byte is
\* rejected with the malformed-change error, whatever accompanies it.
C10_MalformedAlwaysReportedAsMalformed ==
    (Validated /\ HasMalformed(supplied)) =>
        (RejectedUntouched /\ msg[2] = "Bad change at")

\* C10 amended: a changeset with a change whose end_byte < start_byte is
\* rejected by validation and no file is touched; the error is the
\* malformed-change error for the first malformed change in sorted order,
\* unless a change sorted before it starts before the end of its
\* predecessor, and then it is the overlapping-changes error.
C10_MalformedRejected ==
    (Validated /\ HasMalformed(supplied)) =>
        /\ RejectedUntouched
        /\ LET k == FirstMalformed(changes) IN
           IF StartsBeforePrevEnd(changes, k)
           THEN msg[2] = "Overlapping changes"
           ELSE msg[2] = "Bad change at" /\ msg[3] = changes[k].start_byte

\* C10 witness: a malformed change supplied first, sorted behind two
\* well-formed changes that do not overlap, and reported as malformed.
C10_Witness ==
    /\ RejectedUntouched
    /\ msg[2] = "Bad change at"
    /\ Len(supplied) = 3
    /\ ~WellFormed(supplied[1])
    /\ WellFormed(changes[1])
    /\ WellFormed(changes[2])
    /\ ~WellFormed(changes[3])

----------------------------------------------------------------------------
(* Range guard, no-op, second rename, splice, stage order *)

\* Some change starts at or beyond the end of a content of length n.
StartsBeyond(chs, n) == \E i \in DOMAIN chs : chs[i].start_byte >= n

\* C11: a validated changeset with a change whose start_byte is at or beyond
\* the content length makes the apply stage fail with an out-of-range error
\* before any write step: <path> unchanged, no <path>.tmp, no <path>.bk.
C11_StartBeyondContentReported ==
    (ApplyOver /\ StartsBeyond(changes, Len(input))) =>
        /\ pc = "done"
        /\ msg[2] \in {"Input out of range", "Change out of range"}
        /\ NothingWritten

\* The call is over and <path> was not renamed away: it succeeded, or it
\* failed before the first rename took place.
OverWithTargetInPlace ==
    \/ Succeeded
    \/ Failed /\ "rename path bk" \notin Range(ops)

\* C12: reprint(path, []) leaves the content readable at <path> identical
\* to the content before the call, for every content, whether the write
\* phase succeeds or fails before the first rename; its buffer is the input.
C12_NoOpIdempotent ==
    supplied = <<>> =>
        /\ OverWithTargetInPlace => fs.path = Original
        /\ pc = "path_name" => buf = input

\* C12 witness: the empty changeset written through to a non-empty file.
C12_Witness ==
    /\ supplied = <<>>
    /\ Succeeded
    /\ Len(Original.data) = MaxLen
    /\ fs.path = Original
    /\ fs.bk = Original

\* The second rename was attempted and failed.
SecondRenameFailed ==
    /\ pc = "done"
    /\ msg[1] # "none"
    /\ ops # <<>>
    /\ ops[Len(ops)] = "rename tmp path"

\* C13: after a failed second rename <path> is absent, <path>.bk holds the
\* original and <path>.tmp the new content; and the message printed for it
\* (Couldn't rename tmp to path) is printed for no other failure, so it
\* differs from the message of a failed first rename and of every other
\* write-phase error.
C13_SecondRenameFailureDistinct ==
    /\ SecondRenameFailed =>
           /\ ~fs.path.exists
           /\ fs.bk = Original
           /\ fs.tmp = NewContent
    /\ (pc = "done" /\ msg[1] # "none") =>
           (SecondRenameFailed <=>
                (/\ msg[1] = "Error writing file"
                 /\ msg[2] = "Couldn't rename"
                 /\ msg[3] = "tmp"
                 /\ msg[4] = "path"))

\* C13 witness: the second rename failed with a new content in <path>.tmp.
C13_Witness ==
    /\ SecondRenameFailed
    /\ msg[3] = "tmp"
    /\ ~fs.path.exists
    /\ fs.tmp = NewContent
    /\ NewContent # Original

\* The ranges of chs replaced by their texts, last change first, so that
\* the offsets of the earlier changes stay those of the original.
RECURSIVE SpliceAll(_, _)
SpliceAll(inp, chs) ==
    IF chs = <<>> THEN inp
    ELSE LET ch == chs[Len(chs)] IN
         SpliceAll(SubSeq(inp, 1, ch.start_byte) \o ch.text
                       \o SubSeq(inp, ch.end_byte + 1, Len(inp)),
                   SubSeq(chs, 1, Len(chs) - 1))

\* Every change starts inside a content of length n and ends in it.
InRange(chs, n) ==
    \A i \in DOMAIN chs : chs[i].start_byte < n /\ chs[i].end_byte <= n

\* Position k (1-based) of the content lies in the range of no change.
Kept(chs, k) ==
    \A i \in DOMAIN chs : ~(chs[i].start_byte < k /\ k <= chs[i].end_byte)

\* The bytes of the original that lie in no range, in order.
RECURSIVE KeptBytes(_, _, _)
KeptBytes(inp, chs, k) ==
    IF k > Len(inp) THEN <<>>
    ELSE (IF Kept(chs, k) THEN <<inp[k]>> ELSE <<>>) \o KeptBytes(inp, chs, k + 1)

IsOriginalByte(b) == \E i \in DOMAIN Alphabet : Alphabet[i] = b

\* C14: for sorted, verified changes with start_byte < n and end_byte <= n
\* the applier succeeds and its output is the reference splice; the original
\* bytes outside all ranges appear once each, in order, and no other
\* original byte appears.
C14_ReferenceSplice ==
    (ApplyOver /\ InRange(changes, Len(input))) =>
        /\ pc = "path_name"
        /\ buf = SpliceAll(input, changes)
        /\ SelectSeq(buf, IsOriginalByte) = KeptBytes(input, changes, 1)

\* C14 witness: two changes applied, the second one ending at the end of
\* the content, so that the trailing append is empty.
C14_Witness ==
    /\ pc = "path_name"
    /\ Len(changes) = 2
    /\ Len(input) = MaxLen
    /\ changes[1].end_byte > changes[1].start_byte
    /\ changes[2].end_byte = Len(input)
    /\ changes[2].text # <<>>
    /\ buf = SpliceAll(input, changes)
    /\ buf # input

\* The file-system calls of one call, in program order.
CallOrder ==
    <<"open path", "exists tmp", "exists bk", "open tmp", "write tmp",
      "rename path bk", "rename tmp path">>

\* C15: validation is over before any file-system call; the file is read
\* only after validation succeeded; a write-phase step is made only after
\* validation and the apply stage succeeded; and the calls come in the fixed
\* order read, collision checks, temp write, first rename, second rename.
C15_StageOrder ==
    /\ ops = SubSeq(CallOrder, 1, Len(ops))
    /\ pc \in {"sort", "verify"} => ops = <<>>
    /\ ops # <<>> => (changes = sort(supplied) /\ verify(changes)[1] = "ok")
    /\ Len(ops) >= 2 =>
           /\ input = Original.data
           /\ process(input, changes).st = "ok"
           /\ buf = process(input, changes).buf

\* C15 witness: a call that went through every step.
C15_Witness ==
    /\ Succeeded
    /\ ops = CallOrder
    /\ changes # <<>>

\* C18 (state part): at the start of each iteration in_pos is the end_byte
\* of the previous change (0 for the first) and is at most the start_byte
\* of the current change.
C18_CursorAtLoopHead ==
    pc = "process" =>
        /\ in_pos = (IF idx = 1 THEN 0 ELSE changes[idx - 1].end_byte)
        /\ idx <= Len(changes) => in_pos <= changes[idx].start_byte

\* C18 (step part): in_pos does not decrease in a step of process.
C18_CursorMonotonic == pc = "process" => in_pos' >= in_pos

\* C18: loop invariant of process for sorted, verified changes: in_pos is
\* the previous end_byte, never beyond the current start_byte, and never
\* decreases.
C18_LoopInvariant == [](C18_CursorAtLoopHead) /\ [][C18_CursorMonotonic]_vars

\* C18 witness: the head of the second iteration, the cursor moved forward.
C18_Witness ==
    /\ pc = "process"
    /\ idx = 2
    /\ Len(changes) = 2
    /\ in_pos = changes[1].end_byte
    /\ in_pos > 0
    /\ in_pos < changes[2].start_byte

\* C19: for validated changes and a content that was read the capacity
\* estimate is not negative when it is cast to usize, and when the apply
\* stage succeeds it equals the length of the output buffer.
C19_CapacityNonNegative ==
    pc \notin {"sort", "verify", "read", "alloc"} /\ ops # <<>> =>
        /\ cap >= 0
        /\ pc = "path_name" => cap = Len(buf)

----------------------------------------------------------------------------
(* Two calls of reprint on one path.                                       *)
(* Files are inodes: a directory entry names an inode, an open file        *)
(* handle keeps its inode whatever the entries do afterwards.  The steps   *)
(* of a call that touch no file (sort, verify, capacity, process) are      *)
(* taken together with its read.                                           *)

Procs == {1, 2}

Other(p) == IF p = 1 THEN 2 ELSE 1

NoIno == "none"

OrigIno == "original"

\* The inode a call creates when it opens a missing <path>.tmp.
TmpIno(p) == IF p = 1 THEN "created by 1" ELSE "created by 2"

Inodes == {OrigIno} \cup {TmpIno(p) : p \in Procs}

\* The content the two calls find under <path>.
FirstContent == Content(MaxLen)

FirstDisk ==
    [dir |-> [path |-> OrigIno, tmp |-> NoIno, bk |-> NoIno],
     data |-> [i \in Inodes |-> IF i = OrigIno THEN FirstContent ELSE <<>>]]

\* The file a name leads to on disk d.
Under(d, name) ==
    IF d.dir[name] = NoIno THEN Absent ELSE File(d.data[d.dir[name]])

NewCall(chs) ==
    [pc |-> "begin", changes |-> chs, input |-> <<>>, buf |-> <<>>,
     fd |-> NoIno, msg |-> NoMsg,
     passed |-> FALSE,   \* both existence checks found nothing
     late |-> FALSE,     \* the other call had succeeded when this one began
     seen |-> FirstDisk] \* the disk when this call began

\* Each call is given no change or one well-formed change.
CallArgs == {<<>>} \cup {<<c>> : c \in WellFormedChanges}

InitTwo ==
    /\ \E a \in CallArgs, b \in CallArgs :
           calls = [p \in Procs |-> NewCall(IF p = 1 THEN a ELSE b)]
    /\ disk = FirstDisk
    /\ pc = "two calls"
    /\ supplied = <<>>
    /\ changes = <<>>
    /\ path_utf8 = TRUE
    /\ fs = CleanDir(FirstContent)
    /\ fs0 = CleanDir(FirstContent)
    /\ input = <<>>
    /\ cap = 0
    /\ buf = <<>>
    /\ in_pos = 0
    /\ idx = 1
    /\ msg = NoMsg
    /\ ops = <<>>

\* Call p becomes c.
Becomes(p, c) == calls' = [calls EXCEPT ![p] = c]

\* Call p returns from reprint after printing "<prefix>: <m>".
Returns(p, c, prefix, m) ==
    Becomes(p, [c EXCEPT !.pc = "done", !.msg = <<prefix>> \o m])

\* The description of the I/O error of a call on a file.
Desc(present) == IF present THEN "io error" ELSE "no such file"

HasSucceeded(p) == calls[p].pc = "done" /\ calls[p].msg[1] = "none"

\* lines 29-58: sort, verify, read_file, capacity, process.
R_Begin(p) ==
    LET sorted == sort(calls[p].changes)
        v == verify(sorted)
        f == Under(disk, "path")
        c == [calls[p] EXCEPT !.changes = sorted,
                              !.late = HasSucceeded(Other(p)),
                              !.seen = disk]
    IN  /\ calls[p].pc = "begin"
        /\ IF v[1] # "ok"
           THEN Returns(p, c, "Verification error", v)
           ELSE \/ /\ f.exists
                   /\ LET r == rewrite(sorted, f.data) IN
                      IF r.decision = "accept"
                      THEN Becomes(p, [c EXCEPT !.pc = "check_tmp",
                                                !.input = f.data,
                                                !.buf = r.out])
                      ELSE IF r.decision = "reject"
                      THEN Returns(p, [c EXCEPT !.input = f.data],
                                   "Error processing changes", <<r.error>>)
                      ELSE Becomes(p, [c EXCEPT !.pc = "crashed",
                                                !.input = f.data])
                \/ Returns(p, c, "Error reading file", <<Desc(f.exists)>>)
        /\ UNCHANGED disk
        /\ UNCHANGED oneVars

\* lines 136-138
R_CheckTmp(p) ==
    /\ calls[p].pc = "check_tmp"
    /\ IF Under(disk, "tmp").exists
       THEN Returns(p, calls[p], "Error writing file", <<"already exists", "tmp">>)
       ELSE Becomes(p, [calls[p] EXCEPT !.pc = "check_bk"])
    /\ UNCHANGED disk
    /\ UNCHANGED oneVars

\* The backup check left out.
R_CheckBkSkipped(p) ==
    /\ calls[p].pc = "check_bk"
    /\ Becomes(p, [calls[p] EXCEPT !.pc = "open_tmp", !.passed = TRUE])
    /\ UNCHANGED disk
    /\ UNCHANGED oneVars

\* lines 139-141
R_CheckBk(p) ==
    /\ calls[p].pc = "check_bk"
    /\ IF Under(disk, "bk").exists
       THEN Returns(p, calls[p], "Error writing file", <<"already exists", "bk">>)
       ELSE Becomes(p, [calls[p] EXCEPT !.pc = "open_tmp", !.passed = TRUE])
    /\ UNCHANGED disk
    /\ UNCHANGED oneVars

\* lines 144-149: the open creates <path>.tmp when it is missing, and opens
\* the file another call created otherwise, without truncating it.
R_OpenTmp(p) ==
    /\ calls[p].pc = "open_tmp"
    /\ \/ LET d == IF disk.dir.tmp = NoIno
                   THEN [disk EXCEPT !.dir.tmp = TmpIno(p),
                                     !.data[TmpIno(p)] = <<>>]
                   ELSE disk
          IN  /\ disk' = d
              /\ Becomes(p, [calls[p] EXCEPT !.pc = "write_tmp",
                                             !.fd = d.dir.tmp])
       \/ /\ Returns(p, calls[p], "Error writing file",
                     <<"Couldn't open", "tmp", Desc(TRUE)>>)
          /\ disk' = disk
    /\ UNCHANGED oneVars

\* lines 150-153: the write goes to the inode that was opened, at offset 0.
R_WriteTmp(p) ==
    LET i == calls[p].fd IN
    /\ calls[p].pc = "write_tmp"
    /\ \/ /\ disk' = [disk EXCEPT !.data[i] = Overwrite(@, calls[p].buf)]
          /\ Becomes(p, [calls[p] EXCEPT !.pc = "rename_bk"])
       \/ \E k \in 0..(Len(calls[p].buf) - 1) :
          /\ disk' = [disk EXCEPT
                         !.data[i] = Overwrite(@, SubSeq(calls[p].buf, 1, k))]
          /\ Returns(p, calls[p], "Error writing file",
                     <<"Couldn't write to", "tmp", Desc(TRUE)>>)
    /\ UNCHANGED oneVars

\* The target file removed instead of renamed to the backup.
R_RenameBkUnlink(p) ==
    /\ calls[p].pc = "rename_bk"
    /\ \/ /\ disk.dir.path # NoIno
          /\ disk' = [disk EXCEPT !.dir.path = NoIno]
          /\ Becomes(p, [calls[p] EXCEPT !.pc = "rename_tmp"])
       \/ /\ Returns(p, calls[p], "Error writing file",
                     <<"Couldn't rename", "path", "bk", Desc(disk.dir.path # NoIno)>>)
          /\ disk' = disk
    /\ UNCHANGED oneVars

\* lines 156-162: the rename replaces an existing <path>.bk.
R_RenameBk(p) ==
    /\ calls[p].pc = "rename_bk"
    /\ \/ /\ disk.dir.path # NoIno
          /\ disk' = [disk EXCEPT !.dir.bk = disk.dir.path, !.dir.path = NoIno]
          /\ Becomes(p, [calls[p] EXCEPT !.pc = "rename_tmp"])
       \/ /\ Returns(p, calls[p], "Error writing file",
                     <<"Couldn't rename", "path", "bk", Desc(disk.dir.path # NoIno)>>)
          /\ disk' = disk
    /\ UNCHANGED oneVars

\* lines 165-174
R_RenameTmp(p) ==
    /\ calls[p].pc = "rename_tmp"
    /\ \/ /\ disk.dir.tmp # NoIno
          /\ disk' = [disk EXCEPT !.dir.path = disk.dir.tmp, !.dir.tmp = NoIno]
          /\ Becomes(p, [calls[p] EXCEPT !.pc = "done"])
       \/ /\ Returns(p, calls[p], "Error writing file",
                     <<"Couldn't rename", "tmp", "path", Desc(disk.dir.tmp # NoIno)>>)
          /\ disk' = disk
    /\ UNCHANGED oneVars

NextTwo ==
    \E p \in Procs :
        \/ R_Begin(p)
        \/ R_CheckTmp(p)
        \/ R_CheckBk(p)
        \/ R_OpenTmp(p)
        \/ R_WriteTmp(p)
        \/ R_RenameBk(p)
        \/ R_RenameTmp(p)

SpecTwo == InitTwo /\ [][NextTwo]_vars

----------------------------------------------------------------------------
(* Properties of two calls on one path.                                    *)

\* The content the calls found is still under <path> or <path>.bk.
OriginalKept ==
    \/ Under(disk, "path") = File(FirstContent)
    \/ Under(disk, "bk") = File(FirstContent)

\* <path> holds something that is neither what the calls found nor the
\* output of either call.
PathCorrupted ==
    /\ Under(disk, "path").exists
    /\ Under(disk, "path").data # FirstContent
    /\ \A p \in Procs : Under(disk, "path").data # calls[p].buf

\* Call p failed in a rename because the file to rename was gone.
RenameCollided(p) ==
    /\ calls[p].pc = "done"
    /\ calls[p].msg[1] = "Error writing file"
    /\ calls[p].msg[2] = "Couldn't rename"
    /\ calls[p].msg[5] = "no such file"

\* Both calls went past the two existence checks, neither after the
\* other had returned.
BothInWritePhase == \A p \in Procs : calls[p].passed /\ ~calls[p].late

\* C16: two interleaved calls on one path can both pass the existence
\* checks and enter the write phase, and then a result is corrupted or
\* lost or a rename fails, and the content found is no longer recoverable
\* under <path> or <path>.bk; these outcomes arise in no other way than by
\* both calls being in the write phase together.
C16_HarmOnlyFromRace ==
    (~OriginalKept \/ PathCorrupted \/ \E p \in Procs : RenameCollided(p))
        => BothInWritePhase

\* Both calls passed the checks; one succeeded, the other overwrote the
\* backup and failed in its second rename: nothing is under <path> and
\* the content found is under neither name.
C16_Witness ==
    /\ BothInWritePhase
    /\ \A p \in Procs : calls[p].pc = "done"
    /\ \E p \in Procs : HasSucceeded(p) /\ RenameCollided(Other(p))
    /\ ~OriginalKept
    /\ ~Under(disk, "path").exists

\* C17: a call that begins after the other call on the path has succeeded
\* changes no file, never reaches the open of <path>.tmp, never succeeds,
\* and once its changes passed validation and apply it ends with the
\* "already exists" error on <path>.bk.
C17_BackupBlocksLaterCalls ==
    \A p \in Procs :
        calls[p].late =>
            /\ disk = calls[p].seen
            /\ Under(disk, "bk") = File(FirstContent)
            /\ calls[p].pc \in {"check_tmp", "check_bk", "done", "crashed"}
            /\ ~HasSucceeded(p)
            /\ (calls[p].pc = "done" /\ calls[p].msg[1] = "Error writing file")
                   => /\ calls[p].msg[2] = "already exists"
                      /\ calls[p].msg[3] = "bk"

\* A later call with a change that alters the content was turned away at
\* the backup check.
C17_Witness ==
    \E p \in Procs :
        /\ calls[p].late
        /\ HasSucceeded(Other(p))
        /\ calls[p].pc = "done"
        /\ calls[p].msg[1] = "Error writing file"
        /\ calls[p].msg[2] = "already exists"
        /\ calls[p].msg[3] = "bk"
        /\ calls[p].buf # calls[p].input
        /\ disk = calls[p].seen

====
